---- MODULE Spec2Model ----
(***************************************************************************)
(* Oracle vote pipeline and gossip reactor.                                *)
(*                                                                         *)
(*   src/oracle/service/runner/runner.go  signer, pruners, ByVote order    *)
(*   src/unnamed/part_000                 Reactor: Receive, broadcast      *)
(*                                                                         *)
(* Go slices are modelled as (array, len) headers over a heap of backing   *)
(* arrays, so that two slices sharing one backing array see each other's   *)
(* writes, as they do in the program.                                      *)
(***************************************************************************)
EXTENDS Integers, Sequences, FiniteSets, TLC

(***************************************************************************)
(* Bounds of the model.                                                    *)
(***************************************************************************)
\* longest unsigned-vote buffer (drained votes included) the model builds
MaxBuf == 4
\* most votes one signer tick drains from the channel
MaxDrain == 1
\* vote timestamps produced by the application are 0..MaxVoteTime
MaxVoteTime == 1
\* wall-clock seconds the model lets pass one by one within a minute
MaxSecs == 1
\* number of 60 s ticker intervals the model lets pass
MaxMinutes == 1
\* signed timestamps a peer validator puts on its batches are 0..MaxPeerTs
MaxPeerTs == 2
\* longest vote sequence handed to the sort in SpecSort
MaxSortLen == 3

(***************************************************************************)
(* Program constants.                                                      *)
(***************************************************************************)
\* runner.go:100  maxGossipVoteAge defaults to 2 when configured as 0
DefaultMaxGossipVoteAge == 2
\* runner.go:146  interval := 60 * time.Second
GossipInterval == 60

(***************************************************************************)
(* proto Vote: validator, oracle_id, timestamp, data.                      *)
(***************************************************************************)
OracleIds == {"A", "B"}
Datas == {"x", "y"}
Validators == {"", "val"}

Vote == [validator : Validators, oracle_id : OracleIds,
         timestamp : 0..MaxVoteTime, data : Datas]

\* The votes the application hands to the pipeline in Spec: one oracle, one
\* payload, timestamps 0..MaxVoteTime.
AppVotes == {v \in Vote : v.validator = "" /\ v.oracle_id = "A" /\ v.data = "x"}

\* Order of the string constants used for oracle ids and data (Go compares
\* strings bytewise; the model's strings are single letters).
StrRank(s) == CASE s = "" -> 0 [] s = "A" -> 1 [] s = "B" -> 2
                [] s = "val" -> 3 [] s = "x" -> 4 [] s = "y" -> 5 [] OTHER -> 6

StrLess(a, b) == StrRank(a) < StrRank(b)

\* ByVote.Less, on two votes
MutLessTimeDesc(a, b) ==
    IF a.oracle_id # b.oracle_id THEN StrLess(a.oracle_id, b.oracle_id)
    ELSE IF a.timestamp # b.timestamp THEN a.timestamp > b.timestamp
    ELSE StrLess(a.data, b.data)

Less(a, b) ==
    IF a.oracle_id # b.oracle_id THEN StrLess(a.oracle_id, b.oracle_id)
    ELSE IF a.timestamp # b.timestamp THEN a.timestamp < b.timestamp
    ELSE StrLess(a.data, b.data)

\* ByVote.Swap
Swap(s, i, j) == [s EXCEPT ![i] = s[j], ![j] = s[i]]

\* sort.Sort on fewer than 12 elements is an insertion sort driven by Less
\* and Swap: element i sinks while it is Less than its left neighbour.
RECURSIVE Sink(_, _)
Sink(s, j) ==
    IF j > 1 /\ Less(s[j], s[j - 1]) THEN Sink(Swap(s, j, j - 1), j - 1) ELSE s

RECURSIVE InsertFrom(_, _)
InsertFrom(s, i) ==
    IF i > Len(s) THEN s ELSE InsertFrom(Sink(s, i), i + 1)

SortByVote(s) == InsertFrom(s, 2)

(***************************************************************************)
(* Go slices over backing arrays.                                          *)
(***************************************************************************)
ArrIds == {1, 2, 3, 4}
NilArr == 0

\* runtime growslice, for 8-byte elements: double while small, else the
\* needed length, rounded up to the allocator's size class
RoundupCap(c) == IF c <= 4 THEN c ELSE c + (c % 2)

GrowCap(oldCap, newLen) ==
    RoundupCap(IF newLen > 2 * oldCap THEN newLen ELSE 2 * oldCap)

\* capacity of a slice built from []T{} by k single-element appends
RECURSIVE CapAfter(_)
CapAfter(k) ==
    IF k = 0 THEN 0
    ELSE LET c == CapAfter(k - 1) IN IF k <= c THEN c ELSE GrowCap(c, k)

EmptyArr == [cap |-> 0, elems |-> <<>>]

(***************************************************************************)
(* State.                                                                  *)
(***************************************************************************)
VARIABLES
    now,            \* wall clock, seconds (time.Now().Unix())
    sPc,            \* signer: position in ProcessSignVoteQueue
    sVotes,         \* signer: local votes drained in this tick
    sNew,           \* signer: local newGossipVote
    uBuf,           \* UnsignedVoteBuffer.Buffer: slice header [arr, len]
    uMtx,           \* UnsignedVoteBuffer.UpdateMtx: holder, or "none"
    heap,           \* backing arrays of []*Vote slices: [cap, elems]
    ring,           \* oracleInfo.BlockTimestamps
    gBuf,           \* GossipVoteBuffer.Buffer: address -> *GossipVote
    gMtx,           \* GossipVoteBuffer.UpdateMtx: [w: writer or "none", r: readers]
    gpPc,           \* gossip pruner: position in its loop body
    rPc,            \* per Receive call in flight: position
    rMsg,           \* per Receive call: msg
    rCur,           \* per Receive call: [ok, ts] read at lines 193 (currentGossipVote, ok)
    stopped,        \* peers the reactor stopped with Switch.StopPeerForError
    crashed,        \* the Go runtime ended the process with a fatal error
    running,        \* oracleR.IsRunning()
    stopFired,      \* oracleInfo.StopChannel has fired
    peerUp,         \* peer.IsRunning() of the peer AddPeer was called for
    bPc,            \* that peer's broadcastVoteRoutine: position
    fPc,            \* the loop of Run that feeds SignVotesChan: position
    xNow,           \* executor: wall clock, seconds
    rdUp,           \* Redis answers
    rdLast,         \* Redis: value under LastSubmissionTimeKey, or NoValue
    rdLocks,        \* Redis: the oracle lock keys, each with its expiry time
    xTask,          \* RunOracle invocations: position, oracle, normalizedTime
    xRan,           \* the (oracle, normalizedTime) whose jobs have been run
    xSubs,          \* SubmitVote calls so far, per (oracle, normalizedTime)
    chain,          \* the on-chain oracle list OracleAll returns
    appOracles,     \* app.Oracles
    mPc,            \* the executor's Run loop: position
    launched,       \* the oracles RunOracles started in this iteration
    count,          \* the Run loop's iteration counter
    rdResult,       \* Redis: the oracles with a value under their oracle-result key
    bTodo,          \* broadcaster: entries its range loop has still to visit
    bLog,           \* broadcaster: the peer.Send calls of this iteration
    jRun            \* one run of RunOracle's job loop: spec, position, effects

lifeVars == <<running, stopFired, peerUp, bPc, fPc>>
execVars == <<xNow, rdUp, rdLast, rdLocks, xTask, xRan, xSubs, rdResult>>
syncVars == <<chain, appOracles, mPc, launched, count>>
iterVars == <<bTodo, bLog>>
jobVars == <<jRun>>
extVars == <<lifeVars, execVars, syncVars, iterVars, jobVars>>

vars == <<now, sPc, sVotes, sNew, uBuf, uMtx, heap,
          ring, gBuf, gMtx, gpPc, rPc, rMsg, rCur, stopped,
          crashed, extVars>>

\* this validator's address (oracleInfo.PubKey.Address().String()) and the
\* address of a peer validator
Self == "V1"
Peer == "V2"
Keys == {Self, Peer}

signerVars == <<sPc, sVotes, sNew>>
unsignedVars == <<uBuf, uMtx>>
prunerVars == <<ring>>
recvVars == <<rPc, rMsg, rCur, stopped>>

\* the concurrent Receive calls the p2p layer can have in flight (one per peer)
Receivers == {"R1", "R2"}

\* a signature: the key that made it and the canonical batch it was made over
NoSig == [by |-> "", pub_key |-> "", votes |-> <<>>, signed_timestamp |-> 0,
          chain_id |-> ""]

\* GossipVote: SignedTimestamp, Votes (a slice, or the decoded votes of a
\* message), Signature, PublicKey, SignType
NoBatch == [ts |-> 0, arr |-> NilArr, len |-> 0, votes |-> <<>>,
            sig |-> NoSig, pk |-> "", signType |-> ""]

Cap(a) == IF a = NilArr THEN 0 ELSE heap[a].cap

\* the votes a slice (arr, len) shows now
SliceVotes(h, a, n) == IF a = NilArr THEN <<>> ELSE SubSeq(h[a].elems, 1, n)

\* msg.Votes of a batch: a decoded message owns its votes; a batch built by the
\* signer shows its backing array
EntryVotes(h, e) == IF e.arr = NilArr THEN e.votes ELSE SliceVotes(h, e.arr, e.len)

BufVotes == SliceVotes(heap, uBuf.arr, uBuf.len)

\* arrays reachable from the buffer, the signer's local batch and the map
LiveArrs(u, sn, g) ==
    ({u.arr, sn.arr} \cup {g[k].arr : k \in DOMAIN g}) \ {NilArr}

\* a fresh array: any address the reachable arrays do not use
NewArr(live) == CHOOSE a \in ArrIds \ live : \A b \in ArrIds \ live : a <= b

\* Addresses carry no meaning: after every step the reachable arrays are
\* renumbered in the order buffer, local batch, this validator's map entry
\* (a batch decoded from a message owns its votes) and the unreachable ones
\* are collected, so that one program state has one representation.
Canon(u, sn, g, h) ==
    LET a1 == u.arr
        a2 == sn.arr
        a3 == IF Self \in DOMAIN g THEN g[Self].arr ELSE NilArr
        n1 == IF a1 = NilArr THEN 0 ELSE 1
        n2 == IF a2 = NilArr THEN 0 ELSE IF a2 = a1 THEN n1 ELSE n1 + 1
        m2 == IF n2 > n1 THEN n2 ELSE n1
        n3 == IF a3 = NilArr THEN 0 ELSE IF a3 = a1 THEN n1
              ELSE IF a3 = a2 THEN n2 ELSE m2 + 1
    IN  [uBuf |-> [arr |-> n1, len |-> u.len],
         sNew |-> [sn EXCEPT !.arr = n2],
         gBuf |-> [k \in DOMAIN g |->
                     IF k = Self THEN [g[k] EXCEPT !.arr = n3] ELSE g[k]],
         heap |-> [n \in ArrIds |->
                     IF n = n1 THEN h[a1] ELSE IF n = n2 THEN h[a2]
                     ELSE IF n = n3 THEN h[a3] ELSE EmptyArr]]

\* the step's result: buffer header, local batch, map and heap
Store(u, sn, g, h) ==
    LET c == Canon(u, sn, g, h)
    IN  uBuf' = c.uBuf /\ sNew' = c.sNew /\ gBuf' = c.gBuf /\ heap' = c.heap

(***************************************************************************)
(* sync.RWMutex.                                                           *)
(***************************************************************************)
NoLock == "none"

CanLock(m) == m.w = NoLock /\ m.r = {}
CanRLock(m) == m.w = NoLock

\* Unlock does not know its caller: it releases the write lock whoever holds
\* it, and is a fatal error ("sync: Unlock of unlocked RWMutex") when no
\* writer holds it.
UnlockFatal(m) == m.w = NoLock
Unlocked(m) == [m EXCEPT !.w = NoLock]

\* "fatal error: sync: Unlock of unlocked RWMutex": the runtime ends the
\* process, and nothing of its state is left
Fatal ==
    /\ crashed' = TRUE
    /\ sPc' = "dead" /\ sVotes' = <<>> /\ sNew' = NoBatch
    /\ uBuf' = [arr |-> NilArr, len |-> 0]
    /\ uMtx' = NoLock
    /\ heap' = [a \in ArrIds |-> EmptyArr]
    /\ ring' = <<>>
    /\ gBuf' = [k \in {} |-> NoBatch]
    /\ gMtx' = [w |-> NoLock, r |-> {}]
    /\ gpPc' = "dead"
    /\ rPc' = [r \in Receivers |-> "dead"]
    /\ rMsg' = [r \in Receivers |-> NoBatch]
    /\ rCur' = [r \in Receivers |-> [ok |-> FALSE, ts |-> 0]]
    /\ stopped' = {}
    /\ UNCHANGED <<now, extVars>>

MapPut(g, k, v) == [x \in DOMAIN g \cup {k} |-> IF x = k THEN v ELSE g[x]]
MapDel(g, ks) == [x \in DOMAIN g \ ks |-> g[x]]

(***************************************************************************)
(* Signing.  PrivValidator.SignOracleVote and types.OracleVoteSignBytes    *)
(* are not among the source files; they follow the specification:          *)
(* the signature is made over the canonical batch (pub_key, votes,         *)
(* signed_timestamp, chain_id) and signing sets the Signature field only.  *)
(***************************************************************************)
OracleVoteSignBytes(h, e, chainId) ==
    [pub_key |-> e.pk, votes |-> EntryVotes(h, e), signed_timestamp |-> e.ts,
     chain_id |-> chainId]

SignatureBy(key, bytes) ==
    [by |-> key, pub_key |-> bytes.pub_key, votes |-> bytes.votes,
     signed_timestamp |-> bytes.signed_timestamp, chain_id |-> bytes.chain_id]

\* runner.go:75 passes "" as the chain id
SignOracleVote(h, chainId, e) ==
    [e EXCEPT !.sig = SignatureBy(Self, OracleVoteSignBytes(h, e, chainId))]

\* pubKey.VerifySignature(bytes, sig)
VerifySignature(key, bytes, sig) == sig = SignatureBy(key, bytes)

(***************************************************************************)
(* The executor's Redis and tasks (runner.go:420-510), the reactor's       *)
(* lifecycle and the sync of the oracle list: their values at start.       *)
(***************************************************************************)
\* no value under a Redis key
NoValue == -1

\* the RunOracle invocations that can be in flight at once
Slots == {"T1", "T2"}
IdleTask == [pc |-> "idle", o |-> "", nt |-> 0, seen |-> ""]

\* no run of the job loop under way
NoRun == [pc |-> "idle", early |-> FALSE, jobs |-> <<>>, i |-> 0,
          performed |-> <<>>, persisted |-> {}]

InitExt ==
    /\ running = TRUE /\ stopFired = FALSE /\ peerUp = TRUE
    /\ bPc = "head" /\ fPc = "prepare"
    /\ xNow = 0 /\ rdUp = TRUE /\ rdLast = NoValue /\ rdLocks = {}
    /\ xTask = [i \in Slots |-> IdleTask]
    /\ xRan = {} /\ xSubs = << >>
    /\ chain = <<>> /\ appOracles = <<>> /\ mPc = "sync" /\ launched = <<>>
    /\ count = 0
    /\ rdResult = {}
    /\ bTodo = {} /\ bLog = <<>>
    /\ jRun = NoRun

(***************************************************************************)
(* Init.                                                                   *)
(***************************************************************************)
Init ==
    /\ now = 0
    /\ sPc = "drain" /\ sVotes = <<>> /\ sNew = NoBatch
    /\ uBuf = [arr |-> NilArr, len |-> 0]
    /\ uMtx = NoLock
    /\ heap = [a \in ArrIds |-> EmptyArr]
    /\ ring = <<>>
    /\ gBuf = [k \in {} |-> NoBatch]
    /\ gMtx = [w |-> NoLock, r |-> {}]
    /\ gpPc = "tick"
    /\ rPc = [r \in Receivers |-> "idle"]
    /\ rMsg = [r \in Receivers |-> NoBatch]
    /\ rCur = [r \in Receivers |-> [ok |-> FALSE, ts |-> 0]]
    /\ stopped = {}
    /\ crashed = FALSE
    /\ InitExt

(***************************************************************************)
(* Environment: the wall clock, the consensus state, the application.      *)
(***************************************************************************)
AdvanceSecond ==
    /\ ~crashed
    /\ (now % GossipInterval) < MaxSecs
    /\ now' = now + 1
    /\ UNCHANGED <<signerVars, unsignedVars, heap, prunerVars, gBuf,
                   gMtx, gpPc, recvVars, crashed, extVars>>

AdvanceMinute ==
    /\ ~crashed
    /\ (now \div GossipInterval) < MaxMinutes
    /\ now' = now + GossipInterval
    /\ UNCHANGED <<signerVars, unsignedVars, heap, prunerVars, gBuf,
                   gMtx, gpPc, recvVars, crashed, extVars>>

(***************************************************************************)
(* Go append on the unsigned-vote buffer (runner.go:60).                   *)
(* Returns the new slice header and the new heap.                          *)
(***************************************************************************)
MutAppendVotes(h, u, vs, live) ==
    LET n == u.len + Len(vs)
        oldCap == IF u.arr = NilArr THEN 0 ELSE h[u.arr].cap
    IN  IF n <= oldCap
        THEN [buf |-> [arr |-> u.arr, len |-> n],
              heap |-> [h EXCEPT ![u.arr].elems =
                           SubSeq(h[u.arr].elems, 1, u.len) \o vs]]
        ELSE \* the new array receives the new votes only
             LET a == NewArr(live)
             IN  [buf |-> [arr |-> a, len |-> Len(vs)],
                  heap |-> [h EXCEPT ![a] =
                               [cap |-> GrowCap(oldCap, n), elems |-> vs]]]

AppendVotes(h, u, vs, live) ==
    LET n == u.len + Len(vs)
        oldCap == IF u.arr = NilArr THEN 0 ELSE h[u.arr].cap
    IN  IF n <= oldCap
        THEN \* room left: written in place, behind the elements in use
             [buf |-> [arr |-> u.arr, len |-> n],
              heap |-> [h EXCEPT ![u.arr].elems =
                           SubSeq(h[u.arr].elems, 1, u.len) \o vs]]
        ELSE \* a new backing array, the old elements copied
             LET a == NewArr(live)
             IN  [buf |-> [arr |-> a, len |-> n],
                  heap |-> [h EXCEPT ![a] =
                               [cap |-> GrowCap(oldCap, n),
                                elems |-> SliceVotes(h, u.arr, u.len) \o vs]]]

(***************************************************************************)
(* The signer: ProcessSignVoteQueue, one tick (runner.go:35-87).           *)
(***************************************************************************)
\* lines 37-45 with Run, lines 174-181: SignVotesChan is unbuffered, so the
\* receive case of the select runs exactly when Run is blocked sending a vote
\* that PrepareOracleVotes returned; the default case ends the drain.  The
\* votes one tick can drain, with room left in the buffer:
DrainSeqs(room) ==
    UNION {[1..k -> AppVotes] : k \in 0..(IF room < MaxDrain THEN room ELSE MaxDrain)}

\* lines 59-67: Lock, append the drained votes, build newGossipVote
LockAppendBuild(votes) ==
    /\ uMtx = NoLock
    /\ LET res == AppendVotes(heap, uBuf, votes, LiveArrs(uBuf, sNew, gBuf))
           batch == [NoBatch EXCEPT !.ts = now, !.arr = res.buf.arr,
                                     !.len = res.buf.len]
       IN  Store(res.buf, batch, gBuf, res.heap)
    /\ uMtx' = "signer"
    /\ sPc' = "unlockU"
    /\ sVotes' = votes

\* lines 36-67: drain; return on an empty drain and when GetByAddress does
\* not find this validator; else Lock, append, and build newGossipVote whose
\* Votes is the buffer's slice (same backing array).  The drain and the
\* lookup touch nothing another thread reads, so they are one step with the
\* Lock that follows them.
SignerDrainAppend ==
    /\ ~crashed
    /\ sPc = "drain"
    /\ \E votes \in DrainSeqs(MaxBuf - uBuf.len), validatorIndex \in {-1, 0} :
         IF Len(votes) = 0 \/ validatorIndex = -1
         THEN UNCHANGED <<sPc, sVotes, sNew, uBuf, uMtx, heap, gBuf>>
         ELSE LockAppendBuild(votes)
    /\ UNCHANGED <<now, prunerVars, gMtx, gpPc, recvVars, crashed, extVars>>

MutSignerDrainOrReturn ==
    /\ ~crashed
    /\ sPc = "drain"
    /\ \E votes \in DrainSeqs(MaxBuf - uBuf.len), validatorIndex \in {-1, 0} :
         IF Len(votes) = 0
         THEN /\ sPc' = "returnEmpty"
              /\ UNCHANGED <<sVotes, sNew, uBuf, uMtx, heap, gBuf>>
         ELSE /\ uMtx = NoLock
              /\ LET res == AppendVotes(heap, uBuf, votes,
                                        LiveArrs(uBuf, sNew, gBuf))
                 IN  Store(res.buf, sNew, gBuf, res.heap)
              /\ sPc' = IF validatorIndex = -1 THEN "returnNoValidator"
                                               ELSE "unlockU"
              /\ uMtx' = IF validatorIndex = -1 THEN NoLock ELSE "signer"
              /\ sVotes' = votes
    /\ UNCHANGED <<now, prunerVars, gMtx, gpPc, recvVars, crashed, extVars>>

\* the same lines 36-67 with the two early returns as steps of their own:
\* line 48 after an empty drain, line 55 when GetByAddress gives -1 (the
\* drained votes are then in the local votes only)
SignerDrainOrReturn ==
    /\ ~crashed
    /\ sPc = "drain"
    /\ \E votes \in DrainSeqs(MaxBuf - uBuf.len), validatorIndex \in {-1, 0} :
         IF Len(votes) = 0
         THEN /\ sPc' = "returnEmpty"
              /\ UNCHANGED <<sVotes, sNew, uBuf, uMtx, heap, gBuf>>
         ELSE IF validatorIndex = -1
         THEN /\ sPc' = "returnNoValidator"
              /\ sVotes' = votes
              /\ UNCHANGED <<sNew, uBuf, uMtx, heap, gBuf>>
         ELSE LockAppendBuild(votes)
    /\ UNCHANGED <<now, prunerVars, gMtx, gpPc, recvVars, crashed, extVars>>

\* lines 48 and 55: ProcessSignVoteQueue returns to the loop at lines 19-31
SignerReturn ==
    /\ ~crashed
    /\ sPc \in {"returnEmpty", "returnNoValidator"}
    /\ sPc' = "drain"
    /\ sVotes' = <<>>
    /\ UNCHANGED <<now, sNew, uBuf, uMtx, heap, prunerVars, gBuf,
                   gMtx, gpPc, recvVars, crashed, extVars>>

MutSignerUnlockU ==
    /\ ~crashed
    /\ sPc = "unlockU"
    /\ sPc' = "sort"
    /\ sVotes' = <<>>
    /\ UNCHANGED <<now, sNew, uBuf, uMtx, heap, prunerVars, gBuf,
                   gMtx, gpPc, recvVars, crashed, extVars>>

\* line 69
SignerUnlockU ==
    /\ ~crashed
    /\ sPc = "unlockU"
    /\ uMtx' = NoLock
    /\ sPc' = "sort"
    /\ sVotes' = <<>>     \* the local votes is not read again in this tick
    /\ UNCHANGED <<now, sNew, uBuf, heap, prunerVars, gBuf,
                   gMtx, gpPc, recvVars, crashed, extVars>>

\* line 72: sort.Sort(ByVote(newGossipVote.Votes)), in place in the backing
\* array, with no lock held
SortedInPlace(h, b) ==
    [h EXCEPT ![b.arr].elems =
        SortByVote(SubSeq(@, 1, b.len)) \o SubSeq(@, b.len + 1, Len(@))]

\* lines 72-80: the sort, then SignOracleVote("", newGossipVote), which
\* succeeds or fails.  Signing reads the batch and writes its Signature
\* field only, so the two are one step.
SignerSortSign ==
    /\ ~crashed
    /\ sPc = "sort"
    /\ heap' = SortedInPlace(heap, sNew)
    /\ \E err \in BOOLEAN :
         IF err
         THEN sPc' = "errUnlock" /\ UNCHANGED sNew
         ELSE sPc' = "lockG" /\ sNew' = SignOracleVote(heap', "", sNew)
    /\ UNCHANGED <<now, sVotes, unsignedVars, prunerVars, gBuf, gMtx, gpPc,
                   recvVars, crashed, extVars>>

\* lines 76-79: the error path calls GossipVoteBuffer.UpdateMtx.Unlock()
\* although this tick never locked it, then returns
SignerErrUnlock ==
    /\ ~crashed
    /\ sPc = "errUnlock"
    /\ IF UnlockFatal(gMtx)
       THEN Fatal
       ELSE /\ gMtx' = Unlocked(gMtx)
            /\ sPc' = "drain" /\ sVotes' = <<>>
            /\ Store(uBuf, NoBatch, gBuf, heap)
            /\ UNCHANGED <<now, uMtx, prunerVars, gpPc, recvVars, crashed, extVars>>

\* lines 83-85: Lock, store under this validator's address
SignerLockInstall ==
    /\ ~crashed
    /\ sPc = "lockG"
    /\ CanLock(gMtx)
    /\ gMtx' = [gMtx EXCEPT !.w = "signer"]
    /\ Store(uBuf, sNew, MapPut(gBuf, Self, sNew), heap)
    /\ sPc' = "unlockG"
    /\ UNCHANGED <<now, sVotes, uMtx, prunerVars, gpPc, recvVars, crashed, extVars>>

\* line 86, and the return
SignerUnlockG ==
    /\ ~crashed
    /\ sPc = "unlockG"
    /\ IF UnlockFatal(gMtx)
       THEN Fatal
       ELSE /\ gMtx' = Unlocked(gMtx)
            /\ sPc' = "drain" /\ sVotes' = <<>>
            /\ Store(uBuf, NoBatch, gBuf, heap)
            /\ UNCHANGED <<now, uMtx, prunerVars, gpPc, recvVars, crashed, extVars>>

(***************************************************************************)
(* The unsigned-vote pruner: one pass of the loop body (runner.go:103-131) *)
(***************************************************************************)
contains(s, e) == \E i \in 1..Len(s) : s[i] = e

\* oracleInfo.Config.MaxGossipVoteAge, 0 when oracle.json does not set it
ConfigMaxGossipVoteAge == 0

\* lines 98-101
maxGossipVoteAge ==
    IF ConfigMaxGossipVoteAge = 0 THEN DefaultMaxGossipVoteAge
    ELSE ConfigMaxGossipVoteAge

\* block timestamps reported by the consensus state are 1..MaxBlockTime: one
\* past the vote timestamps, so that every vote can grow stale
MaxBlockTime == MaxVoteTime + 1

\* block times the consensus state can report next: block time does not go
\* back, and the last one read is the last one in the ring
BlockTimes(r) == (IF r = <<>> THEN 1 ELSE r[Len(r)])..MaxBlockTime

MutKeptVotes(vs, cutoff) == SelectSeq(vs, LAMBDA v : v.timestamp < cutoff)

\* the votes the filter loop keeps
KeptVotes(vs, cutoff) == SelectSeq(vs, LAMBDA v : v.timestamp >= cutoff)

\* The filter loop reads the buffer's elements under the buffer's lock, but
\* the signer sorts the same backing array after it has released that lock
\* (line 72 follows line 69).  The arrays the insertion sort passes through,
\* one per Swap:
RECURSIVE SortStates(_, _, _)
SortStates(s, i, j) ==
    IF i > Len(s) THEN {s}
    ELSE IF j > 1 /\ Less(s[j], s[j - 1])
         THEN {s} \cup SortStates(Swap(s, j, j - 1), i, j - 1)
         ELSE {s} \cup SortStates(s, i + 1, i + 1)

\* what a reader without synchronisation can read while the sort runs: in
\* every slot, any of the values the slot holds at some point of the sort
RacyReads(s) ==
    LET st == SortStates(s, 2, 2)
        slot(i) == {t[i] : t \in st}
    IN  {r \in [1..Len(s) -> UNION {slot(i) : i \in 1..Len(s)}] :
            \A i \in 1..Len(s) : r[i] \in slot(i)}

\* the signer is between its Unlock and the end of its sort, on the array
\* the buffer still points to
SortRaces == sPc = "sort" /\ uBuf.arr # NilArr /\ sNew.arr = uBuf.arr

\* lines 104-130, one pass of the loop body: read LastBlockTime, update the
\* ring; continue when it is still short; else Lock, filter into a new
\* slice, store it, Unlock.  The ring is the pruner's own and the critical
\* section excludes the signer's, so the pass is one step; the signer's
\* sort, which holds no lock, is the one access that can overlap it.
PrunePass ==
    /\ ~crashed
    /\ \E lastBlockTime \in BlockTimes(ring) :
         LET r1 == IF contains(ring, lastBlockTime) THEN ring
                   ELSE Append(ring, lastBlockTime)
             r2 == IF Len(r1) > maxGossipVoteAge THEN Tail(r1) ELSE r1
         IN  IF Len(r1) < maxGossipVoteAge
             THEN ring' = r1 /\ UNCHANGED <<uBuf, sNew, gBuf, heap>>
             ELSE /\ ring' = r2
                  /\ uMtx = NoLock
                  /\ \E read \in (IF SortRaces THEN RacyReads(BufVotes)
                                   ELSE {BufVotes}) :
                       LET kept == KeptVotes(read, r2[1])
                           live == LiveArrs(uBuf, sNew, gBuf)
                           a == IF kept = <<>> THEN NilArr ELSE NewArr(live)
                           buf == [arr |-> a, len |-> Len(kept)]
                           h == IF a = NilArr THEN heap
                                ELSE [heap EXCEPT ![a] =
                                        [cap |-> CapAfter(Len(kept)),
                                         elems |-> kept]]
                       IN  Store(buf, sNew, gBuf, h)
    /\ UNCHANGED <<now, sPc, sVotes, uMtx, gMtx, gpPc, recvVars, crashed, extVars>>

(***************************************************************************)
(* The gossip-buffer pruner: one pass (runner.go:148-162).                 *)
(***************************************************************************)
\* line 155
MutIsStale(e, currTime) == e.ts <= currTime - GossipInterval

IsStale(e, currTime) == e.ts < currTime - GossipInterval

\* lines 149-160
GPrunePass ==
    /\ ~crashed
    /\ gpPc = "tick"
    /\ CanLock(gMtx)
    /\ gMtx' = [gMtx EXCEPT !.w = "gpruner"]
    /\ Store(uBuf, sNew,
             MapDel(gBuf, {k \in DOMAIN gBuf : IsStale(gBuf[k], now)}), heap)
    /\ gpPc' = "unlock"
    /\ UNCHANGED <<now, sPc, sVotes, uMtx, prunerVars, recvVars, crashed, extVars>>

\* line 161
GPruneUnlock ==
    /\ ~crashed
    /\ gpPc = "unlock"
    /\ IF UnlockFatal(gMtx)
       THEN Fatal
       ELSE /\ gMtx' = Unlocked(gMtx)
            /\ gpPc' = "tick"
            /\ UNCHANGED <<now, signerVars, unsignedVars, heap, prunerVars,
                           gBuf, recvVars, crashed, extVars>>

(***************************************************************************)
(* Reactor.Receive (part_000:158-216).                                     *)
(***************************************************************************)
\* the signature scheme of each key
KeyType(k) == IF k = Peer THEN "ed25519" ELSE "sr25519"

SignTypes == {"ed25519", "sr25519", "secp256k1"}

\* vote lists a peer validator can have put in a batch
PeerVoteSeqs ==
    {<<>>, <<[validator |-> "", oracle_id |-> "A", timestamp |-> 1, data |-> "x"]>>}

\* the batches a peer can deliver: signed by the peer validator's key, or
\* carrying a signature that was not made by the key they name
WireMsgs ==
    {[m EXCEPT !.sig = SignatureBy(by, OracleVoteSignBytes(heap, m, ""))] :
        m \in [ts : 0..MaxPeerTs, arr : {NilArr}, len : {0},
               votes : PeerVoteSeqs, sig : {NoSig}, pk : {Peer},
               signType : SignTypes],
        by \in {Peer, "forger"}}

MutAccepted(msg) == msg.signType \in {"ed25519", "sr25519"}

\* lines 169-190: the switch on msg.SignType and the signature check
Accepted(msg) ==
    /\ msg.signType \in {"ed25519", "sr25519"}
    /\ KeyType(msg.pk) = msg.signType
    /\ VerifySignature(msg.pk, OracleVoteSignBytes(heap, msg, ""), msg.sig)

\* (the whole of lines 158-190 in one step: a batch that is not accepted
\* leaves the call where it was)
RecvVerify(r) ==
    /\ ~crashed
    /\ rPc[r] = "idle"
    /\ \E msg \in WireMsgs :
         IF Accepted(msg)
         THEN /\ rPc' = [rPc EXCEPT ![r] = "rlock"]
              /\ rMsg' = [rMsg EXCEPT ![r] = msg]
         ELSE UNCHANGED <<rPc, rMsg>>
    /\ UNCHANGED <<now, signerVars, unsignedVars, heap, prunerVars,
                   gBuf, gMtx, gpPc, rCur, stopped, crashed, extVars>>

\* lines 192-194: RLock, look the address up, RUnlock
RecvRead(r) ==
    /\ ~crashed
    /\ rPc[r] = "rlock"
    /\ CanRLock(gMtx)
    /\ rCur' = [rCur EXCEPT ![r] =
                  IF rMsg[r].pk \in DOMAIN gBuf
                  THEN [ok |-> TRUE, ts |-> gBuf[rMsg[r].pk].ts]
                  ELSE [ok |-> FALSE, ts |-> 0]]
    /\ rPc' = [rPc EXCEPT ![r] = "lock"]
    /\ UNCHANGED <<now, signerVars, unsignedVars, heap, prunerVars,
                   gBuf, gMtx, gpPc, rMsg, stopped, crashed, extVars>>

\* lines 196-209: Lock, then store when there was no entry at the read, or
\* when the message is newer than the entry that was read
MutShouldStore(cur, msg) == TRUE

ShouldStore(cur, msg) == ~cur.ok \/ msg.ts > cur.ts

RecvLockWrite(r) ==
    /\ ~crashed
    /\ rPc[r] = "lock"
    /\ CanLock(gMtx)
    /\ gMtx' = [gMtx EXCEPT !.w = r]
    /\ Store(uBuf, sNew,
             IF ShouldStore(rCur[r], rMsg[r])
             THEN MapPut(gBuf, rMsg[r].pk, rMsg[r]) ELSE gBuf,
             heap)
    /\ rPc' = [rPc EXCEPT ![r] = "unlock"]
    /\ UNCHANGED <<now, sPc, sVotes, uMtx, prunerVars, gpPc, rMsg, rCur,
                   stopped, crashed, extVars>>

\* lines 198 and 203, the Lock alone: where another thread's Unlock can
\* release the mutex between a Lock and the write that follows it, the two
\* are separate steps
RecvLock(r) ==
    /\ ~crashed
    /\ rPc[r] = "lock"
    /\ CanLock(gMtx)
    /\ gMtx' = [gMtx EXCEPT !.w = r]
    /\ rPc' = [rPc EXCEPT ![r] = "write"]
    /\ UNCHANGED <<now, signerVars, unsignedVars, heap, prunerVars, gBuf, gpPc,
                   rMsg, rCur, stopped, crashed, extVars>>

\* lines 199 and 204-209
RecvWrite(r) ==
    /\ ~crashed
    /\ rPc[r] = "write"
    /\ Store(uBuf, sNew,
             IF ShouldStore(rCur[r], rMsg[r])
             THEN MapPut(gBuf, rMsg[r].pk, rMsg[r]) ELSE gBuf,
             heap)
    /\ rPc' = [rPc EXCEPT ![r] = "unlock"]
    /\ UNCHANGED <<now, sPc, sVotes, uMtx, prunerVars, gMtx, gpPc, rMsg, rCur,
                   stopped, crashed, extVars>>

\* lines 200 and 210
RecvUnlock(r) ==
    /\ ~crashed
    /\ rPc[r] = "unlock"
    /\ IF UnlockFatal(gMtx)
       THEN Fatal
       ELSE /\ gMtx' = Unlocked(gMtx)
            /\ rPc' = [rPc EXCEPT ![r] = "idle"]
            /\ rMsg' = [rMsg EXCEPT ![r] = NoBatch]
            /\ rCur' = [rCur EXCEPT ![r] = [ok |-> FALSE, ts |-> 0]]
            /\ UNCHANGED <<now, signerVars, unsignedVars, heap, prunerVars,
                           gBuf, gpPc, stopped, crashed, extVars>>

\* lines 158-190 for an envelope that carries a batch, whatever the batch:
\* a batch that is not accepted is logged and the call returns
RecvGossipVote(r) ==
    /\ ~crashed
    /\ rPc[r] = "idle"
    /\ \E msg \in WireMsgs :
         /\ rMsg' = [rMsg EXCEPT ![r] = msg]
         /\ rPc' = [rPc EXCEPT ![r] = IF Accepted(msg) THEN "rlock" ELSE "return"]
    /\ UNCHANGED <<now, signerVars, unsignedVars, heap, prunerVars,
                   gBuf, gMtx, gpPc, rCur, stopped, crashed, extVars>>

MutRecvOther(r) ==
    /\ ~crashed
    /\ rPc[r] = "idle"
    /\ rPc' = [rPc EXCEPT ![r] = "unknown"]
    /\ UNCHANGED <<now, signerVars, unsignedVars, heap, prunerVars,
                   gBuf, gMtx, gpPc, rMsg, rCur, stopped, crashed, extVars>>

\* lines 158-160 and 212-215 for an envelope whose message has another type:
\* the error is logged and the peer e.Src (the peer of this call) is stopped
RecvOther(r) ==
    /\ ~crashed
    /\ rPc[r] = "idle"
    /\ stopped' = stopped \cup {r}
    /\ rPc' = [rPc EXCEPT ![r] = "unknown"]
    /\ UNCHANGED <<now, signerVars, unsignedVars, heap, prunerVars,
                   gBuf, gMtx, gpPc, rMsg, rCur, crashed, extVars>>

\* the return statements at lines 178, 185, 189 and 215
RecvReturn(r) ==
    /\ ~crashed
    /\ rPc[r] \in {"return", "unknown"}
    /\ rPc' = [rPc EXCEPT ![r] = "idle"]
    /\ rMsg' = [rMsg EXCEPT ![r] = NoBatch]
    /\ UNCHANGED <<now, signerVars, unsignedVars, heap, prunerVars,
                   gBuf, gMtx, gpPc, rCur, stopped, crashed, extVars>>

\* lines 169-211 run by one call with no other call in between: what the
\* lookup at lines 192-194 returns, and the buffer the call leaves behind
Lookup(g, k) ==
    IF k \in DOMAIN g THEN [ok |-> TRUE, ts |-> g[k].ts]
    ELSE [ok |-> FALSE, ts |-> 0]

Receive(g, msg) ==
    IF Accepted(msg) /\ ShouldStore(Lookup(g, msg.pk), msg)
    THEN MapPut(g, msg.pk, msg) ELSE g

\* a whole Receive call of a batch, serialized with every other call; the
\* call is then at its return, its msg still in its frame
ReceiveSerially(r) ==
    /\ ~crashed
    /\ rPc[r] = "rlock"
    /\ \A q \in Receivers : rPc[q] \in {"rlock", "return"}
    /\ CanLock(gMtx)
    /\ Store(uBuf, sNew, Receive(gBuf, rMsg[r]), heap)
    /\ rPc' = [rPc EXCEPT ![r] = "return"]
    /\ UNCHANGED <<now, sPc, sVotes, uMtx, prunerVars, gMtx, gpPc, rMsg, rCur,
                   stopped, crashed, extVars>>

(***************************************************************************)
(* Lifecycle: the shutdown token and the workers Run starts                *)
(* (runner.go:17-33, 96-183).                                              *)
(***************************************************************************)
nodeVars == <<now, sPc, sVotes, sNew, uBuf, uMtx, heap, ring, gBuf, gMtx, gpPc,
              rPc, rMsg, rCur, stopped, crashed>>

\* the reactor is stopped and the shutdown token (StopChannel) fires
StopReactor ==
    /\ ~crashed
    /\ running
    /\ running' = FALSE
    /\ stopFired' = TRUE
    /\ UNCHANGED <<nodeVars, peerUp, bPc, fPc, execVars, syncVars, iterVars, jobVars>>

\* lines 19-29: the signer loop starts a tick when the token has not fired
\* at the select (the sleep of line 28 is part of the tick)
SignerTickStart == ~stopFired /\ SignerDrainAppend

\* the first tick of the signer loop: the unsigned-vote buffer is empty
SignerFirstTick == uBuf.len = 0 /\ SignerDrainAppend

\* lines 20-22: the select finds the token fired and the loop returns
SignerLoopExit ==
    /\ ~crashed
    /\ sPc = "drain"
    /\ stopFired
    /\ sPc' = "exited"
    /\ UNCHANGED <<now, sVotes, sNew, unsignedVars, heap, prunerVars, gBuf,
                   gMtx, gpPc, recvVars, crashed, extVars>>

\* lines 173-179: PrepareOracleVotes has returned the application's votes
\* (on an error the loop sleeps a second and asks again)
FeedPrepare ==
    /\ ~crashed
    /\ fPc = "prepare"
    /\ fPc' = "send"
    /\ UNCHANGED <<nodeVars, running, stopFired, peerUp, bPc, execVars, syncVars, iterVars, jobVars>>

\* line 181: the send on SignVotesChan completes when the signer receives
\* in the drain of a tick (lines 37-45); the channel has no buffer
\* (part_000:84), so without a signer tick the loop stays at the send
FeedSend ==
    /\ ~crashed
    /\ fPc = "send"
    /\ sPc = "drain" /\ ~stopFired
    /\ fPc' = "prepare"
    /\ UNCHANGED <<nodeVars, running, stopFired, peerUp, bPc, execVars, syncVars, iterVars, jobVars>>

(***************************************************************************)
(* The broadcaster AddPeer starts for a peer (part_000:141-148, 227-299).  *)
(***************************************************************************)
\* the peer stops running (it disconnects, or the switch stops it)
StopPeer ==
    /\ ~crashed
    /\ peerUp
    /\ peerUp' = FALSE
    /\ UNCHANGED <<nodeVars, running, stopFired, bPc, fPc, execVars, syncVars, iterVars, jobVars>>

MutBcastHead ==
    /\ ~crashed
    /\ bPc = "head"
    /\ bPc' = IF ~running THEN "done" ELSE "rlock"
    /\ UNCHANGED <<nodeVars, running, stopFired, peerUp, fPc, execVars, syncVars, iterVars, jobVars>>

\* lines 232-248: the loop returns when the reactor or the peer is not
\* running (IsRunning, and the Quit channels in the select)
BcastHead ==
    /\ ~crashed
    /\ bPc = "head"
    /\ bPc' = IF ~running \/ ~peerUp THEN "done" ELSE "rlock"
    /\ UNCHANGED <<nodeVars, running, stopFired, peerUp, fPc, execVars, syncVars, iterVars, jobVars>>

\* line 273, and the start of the range loop of line 274 over the entries
\* the map has
BcastRLock ==
    /\ ~crashed
    /\ bPc = "rlock"
    /\ CanRLock(gMtx)
    /\ gMtx' = [gMtx EXCEPT !.r = @ \cup {"bcast"}]
    /\ bPc' = "send"
    /\ bTodo' = DOMAIN gBuf
    /\ bLog' = <<>>
    /\ UNCHANGED <<now, signerVars, unsignedVars, heap, prunerVars, gBuf, gpPc,
                   recvVars, crashed, running, stopFired, peerUp, fPc,
                   execVars, syncVars, jobVars>>

\* the addresses this iteration has called peer.Send for
Attempted == {bLog[i].k : i \in 1..Len(bLog)}

\* what a range over a Go map produces next: an entry not reached yet that
\* is still in the map; an entry created in the map since the loop began may
\* be produced or skipped
RangeNext == (bTodo \cap DOMAIN gBuf) \cup (DOMAIN gBuf \ (bTodo \cup Attempted))

MutBcastSend ==
    /\ ~crashed
    /\ bPc = "send"
    /\ \E k \in RangeNext, success \in BOOLEAN :
         /\ bLog' = Append(bLog, [k |-> k, ts |-> gBuf[k].ts, ok |-> success])
         /\ bTodo' = IF success THEN bTodo \ {k} ELSE bTodo
    /\ Len(bLog) < 3
    /\ UNCHANGED <<nodeVars, lifeVars, execVars, syncVars, jobVars>>

\* lines 274-284, one turn of the range loop: peer.Send of the entry; a Send
\* that fails is logged and followed by a sleep of 100 ms, and 'continue'
\* takes the loop to the next entry
BcastSend ==
    /\ ~crashed
    /\ bPc = "send"
    /\ \E k \in RangeNext, success \in BOOLEAN :
         /\ bLog' = Append(bLog, [k |-> k, ts |-> gBuf[k].ts, ok |-> success])
         /\ bTodo' = bTodo \ {k}
    /\ UNCHANGED <<nodeVars, lifeVars, execVars, syncVars, jobVars>>

\* line 274-284: the range loop ends when it has no entry left to produce
BcastSendEnd ==
    /\ ~crashed
    /\ bPc = "send"
    /\ bTodo \cap DOMAIN gBuf = {}
    /\ bPc' = "runlock"
    /\ UNCHANGED <<nodeVars, running, stopFired, peerUp, fPc, execVars,
                   syncVars, iterVars, jobVars>>

\* lines 285-286: RUnlock, sleep, and back to the head of the loop
BcastRUnlock ==
    /\ ~crashed
    /\ bPc = "runlock"
    /\ gMtx' = [gMtx EXCEPT !.r = @ \ {"bcast"}]
    /\ bPc' = "head"
    /\ bTodo' = {}
    /\ bLog' = <<>>
    /\ UNCHANGED <<now, signerVars, unsignedVars, heap, prunerVars, gBuf, gpPc,
                   recvVars, crashed, running, stopFired, peerUp, fPc,
                   execVars, syncVars, jobVars>>

(***************************************************************************)
(* The executor: RunOracle invocations against one Redis                   *)
(* (runner.go:420-510).                                                    *)
(***************************************************************************)
\* the Resolution, in seconds, of the two oracles of app.Oracles
Resolution == [o \in OracleIds |-> IF o = "A" THEN 600 ELSE 300]

\* line 431: time.Minute*5, in seconds
LockTTL == 300
\* the wall clock stops here
MaxNow == 300
\* SubmitVote calls counted per (oracle, normalizedTime)
MaxSubmits == 2

\* line 422
NormalizedTime(t, o) == (t \div Resolution[o]) * Resolution[o]

\* Redis: a key set with a TTL is gone once the TTL has elapsed
LiveLocks(locks, t) == {l \in locks : l.exp > t}
\* Redis SETNX: sets the key only when it does not exist
LockFree(locks, t, o, nt) ==
    ~ \E l \in LiveLocks(locks, t) : l.o = o /\ l.nt = nt
\* the status of the lock key an invocation found set
LockStatus(locks, t, o, nt) ==
    (CHOOSE l \in LiveLocks(locks, t) : l.o = o /\ l.nt = nt).st

\* the invocation in slot s has returned (or the slot was never used)
Returned(s) == xTask[s].pc \in {"idle", "returned", "retDone", "retLocked"}
\* a goroutine that has returned with nothing left to tell
Gone == [IdleTask EXCEPT !.pc = "returned"]
\* between a successful SETNX and the return
PastSetNX(s) == xTask[s].pc \in {"jobs", "setLast", "submit"}

\* the invocation of slot s ends: its lock key stays in Redis until the TTL
\* (nothing deletes it); how its holder ended is kept with it
EndLock(locks, s, how) ==
    {IF l.by = s /\ l.st = "held" THEN [l EXCEPT !.st = how] ELSE l : l \in locks}

\* an invocation for (o, nt) has returned at line 489-491 with an empty
\* result and no invocation has submitted a vote for (o, nt)
EmptyReturned(o, nt) ==
    <<o, nt>> \in DOMAIN xSubs /\ xSubs[<<o, nt>>] = 0

\* lines 501-510: one goroutine per oracle, with the time of the tick.  The
\* invocation remembers whether its tick came after an empty return for
\* the same window (history only: no step reads it)
Launch(s, o) ==
    /\ Returned(s)
    /\ xTask' = [xTask EXCEPT ![s] =
                    [pc |-> "get", o |-> o, nt |-> NormalizedTime(xNow, o),
                     seen |-> IF EmptyReturned(o, NormalizedTime(xNow, o))
                              THEN "afterEmpty" ELSE ""]]
    /\ UNCHANGED <<nodeVars, lifeVars, syncVars, iterVars, jobVars, rdResult,
                   xNow, rdUp, rdLast, rdLocks, xRan, xSubs>>

\* lines 423-429
RunGet(s) ==
    /\ xTask[s].pc = "get"
    /\ xTask' = [xTask EXCEPT ![s].pc =
                    IF ~rdUp THEN "returned"
                    ELSE IF rdLast # NoValue /\ xTask[s].nt <= rdLast
                         THEN "retDone"
                         ELSE "setnx"]
    /\ UNCHANGED <<nodeVars, lifeVars, syncVars, iterVars, jobVars, rdResult,
                   xNow, rdUp, rdLast, rdLocks, xRan, xSubs>>

\* lines 430-435: any error of SetNX, the key being set or Redis being down,
\* ends the invocation with a nil error
RunSetNX(s) ==
    LET o == xTask[s].o
        nt == xTask[s].nt
    IN  /\ xTask[s].pc = "setnx"
        /\ IF ~rdUp
           THEN /\ xTask' = [xTask EXCEPT ![s] = Gone]
                /\ UNCHANGED <<rdLocks, xRan>>
           ELSE IF ~LockFree(rdLocks, xNow, o, nt)
           THEN /\ xTask' = [xTask EXCEPT ![s].pc = "retLocked",
                                          ![s].seen = LockStatus(rdLocks, xNow, o, nt)]
                /\ UNCHANGED <<rdLocks, xRan>>
           ELSE /\ rdLocks' = LiveLocks(rdLocks, xNow) \cup
                       {[o |-> o, nt |-> nt, exp |-> xNow + LockTTL,
                         by |-> s, st |-> "held"]}
                /\ xRan' = xRan \cup {<<o, nt>>}
                /\ xTask' = [xTask EXCEPT ![s].pc = "jobs"]
        /\ UNCHANGED <<nodeVars, lifeVars, syncVars, iterVars, jobVars, rdResult, xNow, rdUp, rdLast, xSubs>>

\* lines 437-468: every job reads its adapter store from Redis
RunJobs(s) ==
    /\ xTask[s].pc = "jobs"
    /\ IF ~rdUp
       THEN /\ xTask' = [xTask EXCEPT ![s] = Gone]
            /\ rdLocks' = EndLock(rdLocks, s, "aborted")
       ELSE /\ xTask' = [xTask EXCEPT ![s].pc = "setLast"]
            /\ UNCHANGED rdLocks
    /\ UNCHANGED <<nodeVars, lifeVars, syncVars, iterVars, jobVars, rdResult, xNow, rdUp, rdLast, xRan, xSubs>>

\* lines 470-473
RunSetLast(s) ==
    /\ xTask[s].pc = "setLast"
    /\ IF ~rdUp
       THEN /\ xTask' = [xTask EXCEPT ![s] = Gone]
            /\ rdLocks' = EndLock(rdLocks, s, "aborted")
            /\ UNCHANGED rdLast
       ELSE /\ rdLast' = xTask[s].nt
            /\ xTask' = [xTask EXCEPT ![s].pc = "submit"]
            /\ UNCHANGED rdLocks
    /\ UNCHANGED <<nodeVars, lifeVars, syncVars, iterVars, jobVars, rdResult, xNow, rdUp, xRan, xSubs>>

\* lines 475-497: SaveOracleResult writes the cache entry only for a
\* non-empty value and ignores the error of its Set; overwriteData changes
\* the value of oracle DXBT only, which is not among OracleIds; an empty
\* value ends the invocation with an error, any other is submitted
RunSubmit(s) ==
    LET p == <<xTask[s].o, xTask[s].nt>>
        n == IF p \in DOMAIN xSubs THEN xSubs[p] ELSE 0
    IN  /\ xTask[s].pc = "submit"
        /\ rdLocks' = EndLock(rdLocks, s, "done")
        /\ xTask' = [xTask EXCEPT ![s] = Gone]
        /\ \E resultData \in {"", "v"} :
              /\ rdResult' = IF resultData # "" /\ rdUp
                             THEN rdResult \cup {xTask[s].o} ELSE rdResult
              /\ IF resultData = ""
                 THEN xSubs' = [q \in DOMAIN xSubs \cup {p} |->
                                   IF q = p THEN n ELSE xSubs[q]]
                 ELSE /\ n < MaxSubmits
                      /\ xSubs' = [q \in DOMAIN xSubs \cup {p} |->
                                      IF q = p THEN n + 1 ELSE xSubs[q]]
        /\ UNCHANGED <<nodeVars, lifeVars, syncVars, iterVars, jobVars, xNow, rdUp, rdLast, xRan>>

\* Redis becomes unreachable, and reachable again
RedisDown ==
    /\ rdUp
    /\ rdUp' = FALSE
    /\ UNCHANGED <<nodeVars, lifeVars, syncVars, iterVars, jobVars, rdResult,
                   xNow, rdLast, rdLocks, xTask, xRan, xSubs>>

RedisUp ==
    /\ ~rdUp
    /\ rdUp' = TRUE
    /\ UNCHANGED <<nodeVars, lifeVars, syncVars, iterVars, jobVars, rdResult,
                   xNow, rdLast, rdLocks, xTask, xRan, xSubs>>

\* time.Now().Unix() of a later tick: five minutes on
AdvanceTime ==
    /\ xNow + LockTTL <= MaxNow
    /\ xNow' = xNow + LockTTL
    /\ rdLocks' = LiveLocks(rdLocks, xNow')
    /\ UNCHANGED <<nodeVars, lifeVars, syncVars, iterVars, jobVars, rdResult,
                   rdUp, rdLast, xTask, xRan, xSubs>>

(***************************************************************************)
(* The executor's loop and the sync of the oracle list                     *)
(* (runner.go:353-402, 512-535).                                           *)
(***************************************************************************)
\* the longest on-chain oracle list
MaxChain == 2
\* the iterations between two syncs (line 531: 600)
MaxCount == 2

\* what the spec string of an on-chain oracle is: well formed and valid, not
\* JSON, not unrollable by ParseSpec, or with jobs ValidateOracleJobs refuses
SpecKinds == {"ok", "badJSON", "badSpec", "badJobs"}
ChainOracles == [Id : OracleIds, Spec : SpecKinds]

RECURSIVE ListsUpTo(_)
ListsUpTo(n) ==
    IF n = 0 THEN {<<>>}
    ELSE LET ls == ListsUpTo(n - 1)
         IN  ls \cup {Append(l, o) : l \in {k \in ls : Len(k) = n - 1},
                                     o \in ChainOracles}

NoErr == "nil"

\* lines 377-399: the named result err is assigned by json.Unmarshal in every
\* iteration; 'spec, err := parser.ParseSpec(spec)' declares a new err in the
\* loop body, which is the one ValidateOracleJobs assigns too
RECURSIVE SyncLoop(_, _, _)
SyncLoop(oraclesData, oracles, err) ==
    IF oraclesData = <<>> THEN [oracles |-> oracles, err |-> err]
    ELSE LET oracle == Head(oraclesData)
             rest == Tail(oraclesData)
         IN  IF oracle.Spec = "badJSON" THEN SyncLoop(rest, oracles, "invalid spec")
             ELSE IF oracle.Spec \in {"badSpec", "badJobs"}
                  THEN SyncLoop(rest, oracles, NoErr)
                  ELSE SyncLoop(rest, Append(oracles, oracle.Id), NoErr)

\* lines 354-402
SyncOracles(fetched, oraclesData) ==
    IF ~fetched THEN [oracles |-> <<>>, err |-> "fetch"]
    ELSE SyncLoop(oraclesData, <<>>, NoErr)

\* the oracle module's list changes on chain
ChainUpdate ==
    /\ \E l \in ListsUpTo(MaxChain) : chain' = l
    /\ chain' # chain
    /\ UNCHANGED <<nodeVars, lifeVars, execVars, iterVars, jobVars, appOracles, mPc, launched, count>>

\* lines 517-525
RunSync ==
    /\ mPc = "sync"
    /\ \E fetched \in BOOLEAN :
          LET r == SyncOracles(fetched, chain)
          IN  IF r.err # NoErr
              THEN /\ mPc' = IF fetched THEN "syncFailed" ELSE "fetchFailed"
                   /\ UNCHANGED appOracles
              ELSE /\ appOracles' = r.oracles
                   /\ mPc' = "run"
    /\ UNCHANGED <<nodeVars, lifeVars, execVars, iterVars, jobVars, chain, launched, count>>

\* lines 520-522: warn, sleep a second, continue with count still 0
RunSyncRetry ==
    /\ mPc \in {"syncFailed", "fetchFailed"}
    /\ mPc' = "sync"
    /\ UNCHANGED <<nodeVars, lifeVars, execVars, iterVars, jobVars, chain, appOracles, launched, count>>

\* line 527 (501-510): one goroutine per oracle of app.Oracles
RunRunOracles ==
    /\ mPc = "run"
    /\ launched' = appOracles
    /\ mPc' = "count"
    /\ UNCHANGED <<nodeVars, lifeVars, execVars, iterVars, jobVars, chain, appOracles, count>>

\* lines 528-533, and line 517 of the next iteration
RunCount ==
    /\ mPc = "count"
    /\ count' = IF count + 1 > MaxCount THEN 0 ELSE count + 1
    /\ mPc' = IF count' = 0 THEN "sync" ELSE "run"
    /\ UNCHANGED <<nodeVars, lifeVars, execVars, iterVars, jobVars, chain, appOracles, launched>>

(***************************************************************************)
(* The node.                                                               *)
(***************************************************************************)
Next ==
    \/ AdvanceSecond
    \/ AdvanceMinute
    \/ SignerDrainAppend
    \/ SignerUnlockU
    \/ SignerSortSign
    \/ SignerErrUnlock
    \/ SignerLockInstall
    \/ SignerUnlockG
    \/ PrunePass
    \/ GPrunePass
    \/ GPruneUnlock
    \/ \E r \in Receivers : RecvGossipVote(r)
    \/ \E r \in Receivers : RecvOther(r)
    \/ \E r \in Receivers : RecvReturn(r)
    \/ \E r \in Receivers : RecvRead(r)
    \/ \E r \in Receivers : RecvLockWrite(r)
    \/ \E r \in Receivers : RecvUnlock(r)

Spec == Init /\ [][Next]_vars

(***************************************************************************)
(* The vote pipeline alone: the application, the signer, the unsigned-vote *)
(* pruner, with no peer delivering batches, within one wall-clock second.  *)
(***************************************************************************)
NextPipeline ==
    \/ SignerDrainAppend
    \/ SignerUnlockU
    \/ SignerSortSign
    \/ SignerErrUnlock
    \/ SignerLockInstall
    \/ SignerUnlockG
    \/ PrunePass

SpecPipeline == Init /\ [][NextPipeline]_vars

\* the pipeline with the signer's early returns as steps
NextSignerTick ==
    \/ SignerDrainOrReturn
    \/ SignerReturn
    \/ SignerUnlockU
    \/ SignerSortSign
    \/ SignerErrUnlock
    \/ SignerLockInstall
    \/ SignerUnlockG
    \/ PrunePass

SpecSignerTick == Init /\ [][NextSignerTick]_vars

\* the workers Run starts, and the stop of the reactor; every worker that can
\* take a step does so eventually (each is a goroutine of its own)
NextLifecycle ==
    \/ StopReactor
    \/ SignerTickStart
    \/ SignerLoopExit
    \/ SignerUnlockU
    \/ SignerSortSign
    \/ SignerErrUnlock
    \/ SignerLockInstall
    \/ SignerUnlockG
    \/ PrunePass
    \/ GPrunePass
    \/ GPruneUnlock
    \/ FeedPrepare
    \/ FeedSend

SpecLifecycle ==
    /\ Init /\ [][NextLifecycle]_vars
    /\ WF_vars(SignerTickStart) /\ WF_vars(SignerLoopExit)
    /\ WF_vars(SignerUnlockU) /\ WF_vars(SignerSortSign)
    /\ WF_vars(SignerErrUnlock) /\ WF_vars(SignerLockInstall)
    /\ WF_vars(SignerUnlockG) /\ WF_vars(PrunePass)
    /\ WF_vars(GPrunePass) /\ WF_vars(GPruneUnlock)
    /\ WF_vars(FeedPrepare) /\ WF_vars(FeedSend)

\* the executor's loop against a changing on-chain list
NextSync ==
    \/ ChainUpdate
    \/ RunSync
    \/ RunSyncRetry
    \/ RunRunOracles
    \/ RunCount

SpecSync == Init /\ [][NextSync]_vars

\* the executor's invocations, Redis and the clock
NextExecutor ==
    \/ \E s \in Slots, o \in OracleIds : Launch(s, o)
    \/ \E s \in Slots : RunGet(s)
    \/ \E s \in Slots : RunSetNX(s)
    \/ \E s \in Slots : RunJobs(s)
    \/ \E s \in Slots : RunSetLast(s)
    \/ \E s \in Slots : RunSubmit(s)
    \/ RedisDown
    \/ RedisUp
    \/ AdvanceTime

SpecExecutor == Init /\ [][NextExecutor]_vars

\* the same invocations over a longer stretch of the wall clock, Redis
\* reachable throughout
MaxLate == 600

LaterTick ==
    /\ xNow + LockTTL <= MaxLate
    /\ xNow' = xNow + LockTTL
    /\ rdLocks' = LiveLocks(rdLocks, xNow')
    /\ UNCHANGED <<nodeVars, lifeVars, syncVars, iterVars, jobVars, rdResult,
                   rdUp, rdLast, xTask, xRan, xSubs>>

NextWindows ==
    \/ \E s \in Slots, o \in OracleIds : Launch(s, o)
    \/ \E s \in Slots : RunGet(s)
    \/ \E s \in Slots : RunSetNX(s)
    \/ \E s \in Slots : RunJobs(s)
    \/ \E s \in Slots : RunSetLast(s)
    \/ \E s \in Slots : RunSubmit(s)
    \/ LaterTick

SpecWindows == Init /\ [][NextWindows]_vars

\* one peer's broadcaster, with a Receive call and the gossip pruner as the
\* writers it shares the gossip buffer lock with.  Every thread that can take
\* a step does so eventually, and an RLock that waits gets the lock when the
\* writer releases it (sync.RWMutex wakes the waiting readers on Unlock).
NextBroadcast ==
    \/ StopReactor
    \/ StopPeer
    \/ BcastHead
    \/ BcastRLock
    \/ BcastSend
    \/ BcastSendEnd
    \/ BcastRUnlock
    \/ RecvVerify("R1")
    \/ RecvRead("R1")
    \/ RecvLockWrite("R1")
    \/ RecvUnlock("R1")
    \/ GPrunePass
    \/ GPruneUnlock

SpecBroadcast ==
    /\ Init /\ [][NextBroadcast]_vars
    /\ WF_vars(BcastHead) /\ SF_vars(BcastRLock)
    /\ WF_vars(BcastSend) /\ WF_vars(BcastSendEnd) /\ WF_vars(BcastRUnlock)
    /\ WF_vars(RecvUnlock("R1")) /\ WF_vars(GPruneUnlock)

\* one peer's broadcaster with the writers of the gossip buffer: the signer,
\* in its first tick, and a Receive call
NextGossip ==
    \/ BcastHead
    \/ BcastRLock
    \/ BcastSend
    \/ BcastSendEnd
    \/ BcastRUnlock
    \/ SignerFirstTick
    \/ SignerUnlockU
    \/ SignerSortSign
    \/ SignerErrUnlock
    \/ SignerLockInstall
    \/ SignerUnlockG
    \/ RecvVerify("R1")
    \/ RecvRead("R1")
    \/ RecvLock("R1")
    \/ RecvWrite("R1")
    \/ RecvUnlock("R1")

SpecGossip == Init /\ [][NextGossip]_vars

\* every thread that takes one of the two buffer locks: the signer in its
\* first tick, the two pruners, a Receive call and one peer's broadcaster.
\* Each is a goroutine of its own and takes the step it can take; a Lock or
\* RLock that finds the mutex free again and again gets it (sync.RWMutex
\* queues its waiters and holds new readers back behind a waiting writer)
NextLocks ==
    \/ SignerFirstTick
    \/ SignerUnlockU
    \/ SignerSortSign
    \/ SignerErrUnlock
    \/ SignerLockInstall
    \/ SignerUnlockG
    \/ PrunePass
    \/ GPrunePass
    \/ GPruneUnlock
    \/ RecvVerify("R1")
    \/ RecvRead("R1")
    \/ RecvLock("R1")
    \/ RecvWrite("R1")
    \/ RecvUnlock("R1")
    \/ BcastHead
    \/ BcastRLock
    \/ BcastSend
    \/ BcastSendEnd
    \/ BcastRUnlock

SpecLocks ==
    /\ Init /\ [][NextLocks]_vars
    /\ SF_vars(SignerFirstTick) /\ WF_vars(SignerUnlockU)
    /\ WF_vars(SignerSortSign) /\ WF_vars(SignerErrUnlock)
    /\ SF_vars(SignerLockInstall) /\ WF_vars(SignerUnlockG)
    /\ SF_vars(GPrunePass) /\ WF_vars(GPruneUnlock)
    /\ SF_vars(RecvRead("R1")) /\ SF_vars(RecvLock("R1"))
    /\ WF_vars(RecvWrite("R1")) /\ WF_vars(RecvUnlock("R1"))
    /\ WF_vars(BcastHead) /\ SF_vars(BcastRLock)
    /\ WF_vars(BcastSend) /\ WF_vars(BcastSendEnd) /\ WF_vars(BcastRUnlock)

\* the same pipeline while the wall clock advances
NextPipelineClock ==
    \/ AdvanceSecond
    \/ NextPipeline

SpecPipelineClock == Init /\ [][NextPipelineClock]_vars

(***************************************************************************)
(* Ingress alone: concurrent Receive calls and the gossip pruner, while    *)
(* the application produces no vote (the signer returns on an empty drain) *)
(***************************************************************************)
NextIngress ==
    \/ AdvanceSecond
    \/ AdvanceMinute
    \/ GPrunePass
    \/ GPruneUnlock
    \/ \E r \in Receivers : RecvVerify(r)
    \/ \E r \in Receivers : RecvRead(r)
    \/ \E r \in Receivers : RecvLockWrite(r)
    \/ \E r \in Receivers : RecvUnlock(r)

SpecIngress == Init /\ [][NextIngress]_vars

(***************************************************************************)
(* The sort step alone, on every content the buffer can have when the      *)
(* signer reaches line 72: any votes of the proto's domain, up to          *)
(* MaxSortLen of them, the candidate batch sharing the buffer's array.     *)
(***************************************************************************)
SortInputs == UNION {[1..n -> Vote] : n \in 1..MaxSortLen}

InitSort ==
    /\ now = 0
    /\ sPc = "sort" /\ sVotes = <<>>
    /\ \E s \in SortInputs :
         /\ uBuf = [arr |-> 1, len |-> Len(s)]
         /\ sNew = [NoBatch EXCEPT !.arr = 1, !.len = Len(s)]
         /\ heap = [a \in ArrIds |->
                      IF a = 1 THEN [cap |-> CapAfter(Len(s)), elems |-> s]
                      ELSE EmptyArr]
    /\ uMtx = NoLock
    /\ ring = <<>>
    /\ gBuf = [k \in {} |-> NoBatch]
    /\ gMtx = [w |-> NoLock, r |-> {}]
    /\ gpPc = "tick"
    /\ rPc = [r \in Receivers |-> "idle"]
    /\ rMsg = [r \in Receivers |-> NoBatch]
    /\ rCur = [r \in Receivers |-> [ok |-> FALSE, ts |-> 0]]
    /\ stopped = {}
    /\ crashed = FALSE
    /\ InitExt

NextSort == SignerSortSign

SpecSort == InitSort /\ [][NextSort]_vars

(***************************************************************************)
(* Properties.                                                             *)
(***************************************************************************)
\* number of occurrences of v in s, and equality of two sequences as
\* multisets
Count(s, v) == Cardinality({i \in 1..Len(s) : s[i] = v})

SameBag(s, t) ==
    /\ Len(s) = Len(t)
    /\ \A i \in 1..Len(s) : Count(s, s[i]) = Count(t, s[i])

\* the lexicographic order (oracle_id, timestamp, data), non-strict
LexLeq(a, b) ==
    \/ StrRank(a.oracle_id) < StrRank(b.oracle_id)
    \/ /\ a.oracle_id = b.oracle_id
       /\ \/ a.timestamp < b.timestamp
          \/ /\ a.timestamp = b.timestamp
             /\ StrRank(a.data) <= StrRank(b.data)

NonDecreasing(s) == \A i \in 1..(Len(s) - 1) : LexLeq(s[i], s[i + 1])

\* what a reader of the gossip buffer sees: every entry with the votes it
\* shows now
GossipView(h, g) ==
    [k \in DOMAIN g |->
        [ts |-> g[k].ts, votes |-> EntryVotes(h, g[k]), sig |-> g[k].sig,
         pk |-> g[k].pk, signType |-> g[k].signType]]

\* a step in which Receive call r passes its write section, and one in
\* which the signer installs its batch
RecvWriteStep(r) == rPc[r] = "lock" /\ rPc'[r] = "unlock"
SignerInstallStep == sPc = "lockG" /\ sPc' = "unlockG"

\* C1: whenever a Receive call changes the entry stored under an address,
\* the entry it stores has a signed_timestamp strictly greater than the
\* entry it overwrites.
C1_ReceiveOverwriteMonotonic ==
    [][\A r \in Receivers : \A k \in DOMAIN gBuf \cap DOMAIN gBuf' :
          (RecvWriteStep(r) /\ gBuf'[k] # gBuf[k])
              => gBuf'[k].ts > gBuf[k].ts]_vars

\* C2: in every reachable state every entry of the gossip buffer carries a
\* signature that verifies over the entry's current votes and
\* signed_timestamp under the key of the address it is stored under.
C2_VerificationClosure ==
    \A k \in DOMAIN gBuf :
        VerifySignature(k, OracleVoteSignBytes(heap, gBuf[k], ""), gBuf[k].sig)

\* C3: in every step that neither replaces nor evicts the entry under an
\* address, the sequence of votes that entry holds stays the same.
C3_BatchNeverMutatedInPlace ==
    [][\A k \in DOMAIN gBuf \cap DOMAIN gBuf' :
          (/\ ~(k = Self /\ SignerInstallStep)
           /\ \A r \in Receivers : ~(RecvWriteStep(r) /\ rMsg[r].pk = k))
              => EntryVotes(heap', gBuf'[k]) = EntryVotes(heap, gBuf[k])]_vars

\* C4: the signer releases the gossip-buffer lock only while it holds it,
\* holds no lock when a tick has returned, and no tick ends the process.
C4_SignerLockDiscipline ==
    /\ sPc = "errUnlock" => gMtx.w = "signer"
    /\ sPc = "drain" => (uMtx # "signer" /\ gMtx.w # "signer")
    /\ ~crashed

\* C5: the steps of a signer tick in which SignOracleVote fails (the sort
\* and failed signing, then the error return) leave the gossip buffer as a
\* reader sees it exactly as it was.
C5_SignFailureLeavesGossipBuffer ==
    [][((sPc = "sort" /\ sPc' = "errUnlock") \/ (sPc = "errUnlock" /\ sPc' = "drain"))
          => GossipView(heap', gBuf') = GossipView(heap, gBuf)]_vars

\* the rule of Receive applied to a buffer: install when the address has no
\* entry, replace when the incoming signed_timestamp is strictly greater,
\* otherwise drop
ReceiveRule(g, msg) ==
    IF msg.pk \notin DOMAIN g \/ msg.ts > g[msg.pk].ts
    THEN MapPut(g, msg.pk, msg) ELSE g

\* C6: the buffer a Receive call leaves behind is the rule applied to the
\* buffer as it is at the moment of the write.
C6_ReceiveAtomicCheckAndInstall ==
    [][\A r \in Receivers :
          RecvWriteStep(r) => gBuf' = ReceiveRule(gBuf, rMsg[r])]_vars

\* C7: every batch the signer installs under this validator's address has a
\* signed_timestamp strictly greater than that of the entry it replaces.
C7_SignerInstallMonotonic ==
    [][(SignerInstallStep /\ Self \in DOMAIN gBuf)
          => gBuf'[Self].ts > gBuf[Self].ts]_vars

\* C8: whenever the signer or the unsigned-vote pruner is at a point where
\* it reads or writes the elements of the unsigned-vote buffer, it holds the
\* buffer's lock; the signer's sort works on the buffer's elements when the
\* candidate batch shares the buffer's backing array.
C8_BufferAccessUnderLock ==
    /\ sPc = "unlockU" => uMtx = "signer"
    /\ SortRaces => uMtx = "signer"

\* C9: in the step that appends the drained votes and builds the candidate
\* batch, the batch shows exactly the buffer after the append, which is, as
\* a multiset, the votes buffered before plus the votes drained in this
\* tick.
C9_CandidateBatchIsBufferPlusDrained ==
    [][(sPc = "drain" /\ sPc' = "unlockU") =>
          /\ EntryVotes(heap', sNew') = SliceVotes(heap', uBuf'.arr, uBuf'.len)
          /\ SameBag(EntryVotes(heap', sNew'), BufVotes \o sVotes')]_vars

\* a candidate batch built over retained votes and a drained one
C9_Witness ==
    /\ sPc = "unlockU"
    /\ sNew.len >= 2
    /\ EntryVotes(heap, sNew) = BufVotes

\* C10: for every content of the buffer, the votes of the batch after the
\* sort step are non-decreasing in (oracle_id, timestamp, data) and are a
\* permutation of the votes the buffer held.
C10_SortContract ==
    [][(sPc = "sort" /\ sPc' # "sort") =>
          /\ NonDecreasing(EntryVotes(heap', sNew'))
          /\ SameBag(EntryVotes(heap', sNew'), BufVotes)]_vars

\* a signed batch of three votes ordered by oracle id first, then by
\* timestamp, then by data
C10_Witness ==
    /\ sPc = "lockG"
    /\ EntryVotes(heap, sNew) =
         <<[validator |-> "val", oracle_id |-> "A", timestamp |-> 1, data |-> "y"],
           [validator |-> "", oracle_id |-> "B", timestamp |-> 0, data |-> "x"],
           [validator |-> "", oracle_id |-> "B", timestamp |-> 0, data |-> "y"]>>

\* the arrival orders of one multiset of votes: every rearrangement of s
Rearrangements(s) ==
    {[i \in 1..Len(s) |-> s[f[i]]] :
        f \in {g \in [1..Len(s) -> 1..Len(s)] :
                 \A i, j \in 1..Len(s) : g[i] = g[j] => i = j}}

\* C11: the votes sequence of a sorted batch is a function of the multiset
\* of votes alone: a second signer that received the same votes in any other
\* arrival order sorts them into the same sequence.
C11_SortDeterminism ==
    (sPc \in {"lockG", "errUnlock"} /\ sNew.arr # NilArr) =>
        \A t \in Rearrangements(EntryVotes(heap, sNew)) :
            SortByVote(t) = EntryVotes(heap, sNew)

\* a step of the unsigned-vote pruner in the pipeline: every signer step
\* moves the signer, the clock step moves the clock
PruneStep == sPc' = sPc /\ now' = now

C13_PruneRemovesExactlyStale ==
    [][PruneStep =>
          LET before == BufVotes
              after == SliceVotes(heap', uBuf'.arr, uBuf'.len)
          IN  IF Len(ring') < maxGossipVoteAge
              THEN after = before
              ELSE \A v \in Vote :
                      Count(after, v) =
                         IF v.timestamp >= ring'[1] THEN Count(before, v) ELSE 0]_vars

\* a step in which the gossip pruner makes its pass over the map
GPruneStep == gpPc = "tick" /\ gpPc' = "unlock"

\* C14: at the end of a gossip-buffer prune pass run at time now no entry
\* has signed_timestamp < now - 60, and every entry with signed_timestamp
\* >= now - 60 that was there before the pass is there unchanged.
C14_EvictionBound ==
    [][GPruneStep =>
          /\ \A k \in DOMAIN gBuf' : gBuf'[k].ts >= now - GossipInterval
          /\ \A k \in DOMAIN gBuf :
                gBuf[k].ts >= now - GossipInterval =>
                   /\ k \in DOMAIN gBuf'
                   /\ GossipView(heap', gBuf')[k] = GossipView(heap, gBuf)[k]]_vars

\* a pass has run over an entry that is exactly 60 seconds old
C14_Witness ==
    /\ gpPc = "unlock"
    /\ Peer \in DOMAIN gBuf
    /\ gBuf[Peer].ts = now - GossipInterval

\* C15: a Receive call whose batch has a signed_timestamp equal to or less
\* than that of the entry stored under the batch's address when the call
\* passes its write section leaves the gossip buffer as it is.
C15_ReplayRejection ==
    [][\A r \in Receivers :
          (/\ RecvWriteStep(r)
           /\ rMsg[r].pk \in DOMAIN gBuf
           /\ rMsg[r].ts <= gBuf[rMsg[r].pk].ts)
              => GossipView(heap', gBuf') = GossipView(heap, gBuf)]_vars

\* C16: a Receive call whose batch finds no entry under its address when
\* the call passes its write section, or an entry with a strictly smaller
\* signed_timestamp, leaves the batch stored under that address and every
\* other entry as it was.
C16_NewerWins ==
    [][\A r \in Receivers :
          (/\ RecvWriteStep(r)
           /\ \/ rMsg[r].pk \notin DOMAIN gBuf
              \/ rMsg[r].ts > gBuf[rMsg[r].pk].ts)
              => /\ rMsg[r].pk \in DOMAIN gBuf'
                 /\ gBuf'[rMsg[r].pk] = rMsg[r]
                 /\ \A k \in DOMAIN gBuf \ {rMsg[r].pk} :
                       /\ k \in DOMAIN gBuf'
                       /\ GossipView(heap', gBuf')[k] = GossipView(heap, gBuf)[k]]_vars

(***************************************************************************)
(* Two verified batches of one key, each delivered by one Receive call,    *)
(* the calls serialized in either order, into an empty gossip buffer.      *)
(***************************************************************************)
InitCommute ==
    /\ now = 0
    /\ sPc = "drain" /\ sVotes = <<>> /\ sNew = NoBatch
    /\ uBuf = [arr |-> NilArr, len |-> 0]
    /\ uMtx = NoLock
    /\ heap = [a \in ArrIds |-> EmptyArr]
    /\ ring = <<>>
    /\ gBuf = [k \in {} |-> NoBatch]
    /\ gMtx = [w |-> NoLock, r |-> {}]
    /\ gpPc = "tick"
    /\ rPc = [r \in Receivers |-> "rlock"]
    /\ rMsg \in [Receivers -> {m \in WireMsgs : Accepted(m)}]
    /\ rCur = [r \in Receivers |-> [ok |-> FALSE, ts |-> 0]]
    /\ stopped = {}
    /\ crashed = FALSE
    /\ InitExt

NextCommute == \E r \in Receivers : ReceiveSerially(r)

SpecCommute == InitCommute /\ [][NextCommute]_vars

(***************************************************************************)
(* Receive alone, on every envelope a peer can deliver: batches that are   *)
(* accepted, batches that are not, and messages of another type.           *)
(***************************************************************************)
NextReceive ==
    \/ \E r \in Receivers : RecvGossipVote(r)
    \/ \E r \in Receivers : RecvOther(r)
    \/ \E r \in Receivers : RecvRead(r)
    \/ \E r \in Receivers : RecvLockWrite(r)
    \/ \E r \in Receivers : RecvUnlock(r)
    \/ \E r \in Receivers : RecvReturn(r)

SpecReceive == Init /\ [][NextReceive]_vars

BothDelivered == \A r \in Receivers : rPc[r] = "return"
EmptyBuf == [k \in {} |-> NoBatch]

BadBatch(msg) ==
    \/ msg.signType \notin {"ed25519", "sr25519"}
    \/ KeyType(msg.pk) # msg.signType
    \/ ~VerifySignature(msg.pk, OracleVoteSignBytes(heap, msg, ""), msg.sig)

\* a step in which Receive call r takes a batch off its envelope
RecvBatchStep(r) == rPc[r] = "idle" /\ rPc'[r] # "idle" /\ rMsg'[r] # NoBatch

\* C18: a Receive call that gets a batch whose signature does not verify or
\* whose sign_type is not supported goes to its return with the gossip
\* buffer as it was, its peer not stopped by it and no lock taken, and it
\* holds no lock when it returns.
C18_RejectedIngressChangesNothing ==
    [][\A r \in Receivers :
          /\ (RecvBatchStep(r) /\ BadBatch(rMsg'[r])) =>
                /\ rPc'[r] = "return"
                /\ GossipView(heap', gBuf') = GossipView(heap, gBuf)
                /\ stopped' = stopped
                /\ gMtx' = gMtx
          /\ rPc[r] = "return" => (gMtx.w # r /\ r \notin gMtx.r)]_vars

\* a call returns from a batch with a forged signature while the buffer holds
\* an entry and the call's peer is not stopped
C18_Witness ==
    \E r \in Receivers :
        /\ rPc[r] = "return"
        /\ rMsg[r].sig.by = "forger"
        /\ Peer \in DOMAIN gBuf
        /\ r \notin stopped
        /\ gMtx.w # r

\* C19: a Receive call that gets an envelope whose message is not a batch
\* stops the peer that sent it and leaves the gossip buffer as it was.
C19_UnknownMessageStopsPeer ==
    [][\A r \in Receivers :
          (rPc[r] = "idle" /\ rPc'[r] = "unknown") =>
             /\ r \in stopped'
             /\ GossipView(heap', gBuf') = GossipView(heap, gBuf)]_vars

\* a call is at its return from a message of another type, its peer stopped,
\* while the buffer holds an entry
C19_Witness ==
    \E r \in Receivers :
        /\ rPc[r] = "unknown"
        /\ r \in stopped
        /\ Peer \in DOMAIN gBuf

\* the chain this node runs on
NodeChainId == "chain-A"

\* C20: the bytes the signer has signed when it goes on to install its batch
\* carry this node's chain id, which is not the empty string.
C20_SignatureBindsChainId ==
    sPc = "lockG" =>
        /\ sNew.sig.chain_id = NodeChainId
        /\ sNew.sig.chain_id # ""

\* the message peer.Send puts on the wire for a buffer entry
\* (part_000:275-278): the entry with the votes it shows when it is sent
OnWire(h, e) == [e EXCEPT !.arr = NilArr, !.len = 0, !.votes = EntryVotes(h, e)]

\* C21: the batch the signer has installed under this validator's address
\* carries what a peer's Receive needs to accept it when the broadcaster
\* sends it: this validator's key bytes, a supported sign_type and a
\* signature that verifies.
C21_SignerBatchAcceptedAtIngress ==
    (sPc = "unlockG" /\ Self \in DOMAIN gBuf) =>
        /\ OnWire(heap, gBuf[Self]).pk = Self
        /\ Accepted(OnWire(heap, gBuf[Self]))

\* the threads that take a lock
Threads == {"signer", "pruner", "gpruner"} \cup Receivers

\* C24: no thread holds the unsigned-vote buffer lock and the gossip buffer
\* lock (for writing or for reading) at once, and the signer is past its
\* release of the unsigned-vote buffer lock when it goes for the gossip
\* buffer lock.
C24_NeverBothLocks ==
    /\ \A t \in Threads : ~(uMtx = t /\ (gMtx.w = t \/ t \in gMtx.r))
    /\ sPc \in {"lockG", "unlockG"} => uMtx # "signer"

\* the signer holds the gossip buffer lock, its batch installed, after a
\* tick in which it held the unsigned-vote buffer lock
C24_Witness ==
    /\ sPc = "unlockG"
    /\ gMtx.w = "signer"
    /\ uMtx = NoLock
    /\ uBuf.len > 0

\* a step in which a signer tick takes one of its early returns
SignerAbortStep == sPc = "drain" /\ sPc' \in {"returnEmpty", "returnNoValidator"}

\* C25: a signer tick that returns early (nothing drained, or this validator
\* not in the validator set) leaves the unsigned-vote buffer and the gossip
\* buffer as they were, takes and holds no lock, and the loop goes on to
\* its next tick.
C25_AbortedTickChangesNothing ==
    [][/\ SignerAbortStep =>
            /\ SliceVotes(heap', uBuf'.arr, uBuf'.len) = BufVotes
            /\ GossipView(heap', gBuf') = GossipView(heap, gBuf)
            /\ uMtx' = uMtx /\ gMtx' = gMtx
            /\ uMtx # "signer" /\ gMtx.w # "signer"
       /\ (sPc \in {"returnEmpty", "returnNoValidator"} /\ sPc' # sPc) =>
            sPc' = "drain"]_vars

\* a tick has returned because the validator was not found, with votes
\* drained, while both buffers hold votes
C25_Witness ==
    /\ sPc = "returnNoValidator"
    /\ sVotes # <<>>
    /\ uBuf.len > 0
    /\ Self \in DOMAIN gBuf

\* a worker has exited: its loop has returned, or the process has ended.
\* The loops of the two pruners (runner.go:103, 148) and the feeding loop of
\* Run (runner.go:173) have no return.
SignerExited == sPc \in {"exited", "dead"}
PrunerExited == crashed
GossipPrunerExited == gpPc \in {"exited", "dead"}
FeederExited == fPc = "exited" \/ crashed

\* C22: once the shutdown token has fired, the signer loop, the two pruners
\* and the loop that feeds the vote channel all exit eventually.
C22_WorkersExitAfterStop ==
    stopFired ~>
        (SignerExited /\ PrunerExited /\ GossipPrunerExited /\ FeederExited)

\* C23: once the reactor or the peer is not running the peer's broadcaster
\* returns eventually, and a broadcaster that has returned does not hold the
\* gossip buffer's read lock.
C23_BroadcasterTerminates ==
    /\ (~running \/ ~peerUp) ~> bPc = "done"
    /\ [](bPc = "done" => "bcast" \notin gMtx.r)

\* the broadcaster has returned because its peer stopped, the reactor still
\* running and the buffer holding an entry
C23_Witness ==
    /\ bPc = "done"
    /\ ~peerUp /\ running
    /\ Peer \in DOMAIN gBuf
    /\ "bcast" \notin gMtx.r

\* C26: of the RunOracle invocations in flight for one oracle id and one
\* normalizedTime, at most one is past the SETNX on the oracle lock key.
C26_SingleSubmitLock ==
    \A s1 \in Slots, s2 \in Slots :
        (/\ s1 # s2
         /\ xTask[s1].o = xTask[s2].o
         /\ xTask[s1].nt = xTask[s2].nt
         /\ PastSetNX(s1))
        => ~PastSetNX(s2)

\* C27: SubmitVote is called at most once for each (oracle id,
\* normalizedTime).
C27_AtMostOneSubmission ==
    \A p \in DOMAIN xSubs : xSubs[p] <= 1

\* C28: an invocation returns at the last-submission check only when its
\* own oracle has already run its jobs for the same normalizedTime.
C28_CheckReturnsOnlyForOwnWindow ==
    \A s \in Slots :
        xTask[s].pc = "retDone" => <<xTask[s].o, xTask[s].nt>> \in xRan

\* C29: an invocation never returns at the SETNX because of the lock key of
\* an invocation that a Redis error aborted.
C29_AbortedTickDoesNotBlock ==
    \A s \in Slots :
        xTask[s].pc = "retLocked" => xTask[s].seen # "aborted"

\* the oracles of a list whose spec parses and validates, in the list's order
RECURSIVE ValidOracles(_)
ValidOracles(l) ==
    IF l = <<>> THEN <<>>
    ELSE IF Head(l).Spec = "ok" THEN <<Head(l).Id>> \o ValidOracles(Tail(l))
         ELSE ValidOracles(Tail(l))

\* C30: when the list has been fetched, the sync installs exactly the oracles
\* with a valid spec, wherever the invalid ones are in the list, and the same
\* iteration goes on to start every installed oracle.
C30_InvalidSpecIsolated ==
    [][/\ (mPc = "sync" /\ mPc' \notin {"sync", "fetchFailed"})
          => (mPc' = "run" /\ appOracles' = ValidOracles(chain))
       /\ (mPc = "run" /\ mPc' = "count")
          => launched' = appOracles]_vars

\* C34: after a failed sync with an installed set in use, the set is
\* unchanged and the loop's next step is to launch the executions of that set.
C34_FailedSyncKeepsRunning ==
    [][(/\ mPc \in {"syncFailed", "fetchFailed"}
        /\ appOracles # <<>>
        /\ mPc' # mPc)
       => (appOracles' = appOracles /\ mPc' = "run")]_vars

\* C35: the votes a signer tick has drained are appended to the unsigned-vote
\* buffer in that tick, whether the tick goes on to sign or returns because
\* the validator is not in the set.
C35_NoDrainedVoteLost ==
    [][(sPc = "drain" /\ sPc' \in {"returnNoValidator", "unlockU"})
       => BufVotes' = BufVotes \o sVotes']_vars

\* C36: every write of the last-submission time stores a value that is not
\* below the value stored before it.
C36_LastSubmissionNeverDecreases ==
    [][rdLast' >= rdLast]_vars

(***************************************************************************)
(* RunOracle's job loop, lines 446-468, one job a step.  RunJobs above is  *)
(* the same loop in one step, for the invocations that share Redis.  What  *)
(* an adapter does with a job is an input: whether Perform returns an      *)
(* error, whether it sets store.ShouldPersist, and whether the Redis read  *)
(* before it or the Redis write after it fails.                            *)
(***************************************************************************)
MaxJobs == 2

JobOutcomes == [err : BOOLEAN, persist : BOOLEAN,
                rd : {"ok", "getFail", "setFail"}]

JobLists == UNION {[1..n -> JobOutcomes] : n \in 0..MaxJobs}

\* lines 437-445: the spec's jobs and ShouldEarlyTerminate
JobsStart ==
    /\ jRun.pc = "idle"
    /\ \E shouldEarlyTerminate \in BOOLEAN, jobs \in JobLists :
          jRun' = [NoRun EXCEPT !.pc = "loop", !.early = shouldEarlyTerminate,
                                !.jobs = jobs, !.i = 1]
    /\ UNCHANGED <<nodeVars, lifeVars, execVars, syncVars, iterVars>>

\* lines 446-468: one turn of the loop.  The mutant breaks on any error.
MutJobStep ==
    /\ jRun.pc = "loop" /\ jRun.i <= Len(jRun.jobs)
    /\ LET job == jRun.jobs[jRun.i]
           did == [jRun EXCEPT !.performed = Append(@, jRun.i)]
       IN  jRun' =
             IF job.rd = "getFail"
             THEN [jRun EXCEPT !.pc = "retErr"]
             ELSE IF job.err
             THEN [did EXCEPT !.pc = "setLast"]
             ELSE IF job.persist /\ job.rd = "setFail"
             THEN [did EXCEPT !.pc = "retErr"]
             ELSE [did EXCEPT !.i = @ + 1,
                              !.persisted = IF job.persist
                                            THEN @ \cup {jRun.i} ELSE @]
    /\ UNCHANGED <<nodeVars, lifeVars, execVars, syncVars, iterVars>>

JobStep ==
    /\ jRun.pc = "loop" /\ jRun.i <= Len(jRun.jobs)
    /\ LET job == jRun.jobs[jRun.i]
           did == [jRun EXCEPT !.performed = Append(@, jRun.i)]
       IN  jRun' =
             IF job.rd = "getFail"
             THEN [jRun EXCEPT !.pc = "retErr"]
             ELSE IF job.err /\ jRun.early
             THEN [did EXCEPT !.pc = "setLast"]
             ELSE IF job.persist /\ job.rd = "setFail"
             THEN [did EXCEPT !.pc = "retErr"]
             ELSE [did EXCEPT !.i = @ + 1,
                              !.persisted = IF job.persist
                                            THEN @ \cup {jRun.i} ELSE @]
    /\ UNCHANGED <<nodeVars, lifeVars, execVars, syncVars, iterVars>>

\* the range is exhausted: on to line 470
JobsEnd ==
    /\ jRun.pc = "loop" /\ jRun.i > Len(jRun.jobs)
    /\ jRun' = [jRun EXCEPT !.pc = "setLast"]
    /\ UNCHANGED <<nodeVars, lifeVars, execVars, syncVars, iterVars>>

\* the invocation is over; the next one starts with a fresh frame
JobsReturn ==
    /\ jRun.pc \in {"setLast", "retErr"}
    /\ jRun' = NoRun
    /\ UNCHANGED <<nodeVars, lifeVars, execVars, syncVars, iterVars>>

NextJobs == JobsStart \/ JobStep \/ JobsEnd \/ JobsReturn

SpecJobs == Init /\ [][NextJobs]_vars

\* the jobs whose Perform returns an error, and the first of them
ErrJobs == {k \in 1..Len(jRun.jobs) : jRun.jobs[k].err}
FirstErr == CHOOSE k \in ErrJobs : \A l \in ErrJobs : k <= l
UpTo(n) == [k \in 1..n |-> k]

\* C32: a run of the job loop that no Redis error ended reaches the write
\* of the last submission time (line 470); there, with ShouldEarlyTerminate
\* and an adapter error, exactly the jobs up to the first failing one were
\* performed, in order, and the failing job's store was not persisted;
\* without ShouldEarlyTerminate (or without an error) every job was
\* performed, in list order.  A run returns before line 470 only at a job
\* whose Redis read or write failed, never because of an adapter error.
C32_AdapterErrors ==
    /\ jRun.pc = "setLast" =>
          IF jRun.early /\ ErrJobs # {}
          THEN /\ jRun.performed = UpTo(FirstErr)
               /\ FirstErr \notin jRun.persisted
          ELSE jRun.performed = UpTo(Len(jRun.jobs))
    /\ jRun.pc = "retErr" =>
          /\ jRun.i <= Len(jRun.jobs)
          /\ jRun.jobs[jRun.i].rd # "ok"

\* both cases in one reachable run is not possible; the witness is the
\* second: an error in the first job, no early termination, both performed
C32_Witness ==
    /\ jRun.pc = "setLast" /\ ~jRun.early
    /\ Len(jRun.jobs) = 2 /\ jRun.jobs[1].err
    /\ jRun.performed = <<1, 2>>

\* the entries that were in the map when the range loop began and are in it
\* now
RangedEntries == (bTodo \cup Attempted) \cap DOMAIN gBuf

\* C31: an iteration of the broadcaster calls peer.Send once for every entry
\* of the buffer and for none twice, whether its Sends succeed or not, holds
\* the read lock from its RLock to the end of the range loop and not after
\* its RUnlock, and its steps leave the buffer as it is.
C31_BroadcastIteration ==
    /\ [](~crashed =>
            /\ \A i \in 1..Len(bLog), j \in 1..Len(bLog) :
                  bLog[i].k = bLog[j].k => i = j
            /\ bPc = "runlock" => RangedEntries \subseteq Attempted
            /\ bPc \in {"send", "runlock"} <=> "bcast" \in gMtx.r)
    /\ [][(bPc' # bPc \/ bLog' # bLog) => gBuf' = gBuf]_vars

\* the range loop has ended over a buffer of two entries; the Send of the
\* first was rejected and the second was attempted all the same
C31_Witness ==
    /\ ~crashed
    /\ bPc = "runlock"
    /\ DOMAIN gBuf = Keys
    /\ Len(bLog) = 2
    /\ ~bLog[1].ok

\* C33: an invocation that returns from line 475-497 without a call of
\* SubmitVote (its result was empty) has written no oracle-result cache
\* entry; and an
\* invocation launched by a tick that came after such a return for the same
\* (oracle, normalizedTime) does not get past the SETNX to the jobs.
C33_EmptyResultClosesWindow ==
    /\ [][\A s \in Slots :
            LET p == <<xTask[s].o, xTask[s].nt>>
            IN  (/\ xTask[s].pc = "submit" /\ xTask'[s].pc = "returned"
                 /\ p \in DOMAIN xSubs => xSubs'[p] = xSubs[p]
                 /\ p \notin DOMAIN xSubs => xSubs'[p] = 0)
                => rdResult' = rdResult]_vars
    /\ [](\A s \in Slots : xTask[s].seen = "afterEmpty" => ~PastSetNX(s))

\* the threads that are at a Lock or RLock call the mutex does not grant
SignerBlocked ==
    \/ sPc = "drain" /\ uMtx # NoLock
    \/ sPc = "lockG" /\ ~CanLock(gMtx)
PrunerBlocked == uMtx # NoLock
GPrunerBlocked == gpPc = "tick" /\ ~CanLock(gMtx)
RecvBlocked(r) ==
    \/ rPc[r] = "rlock" /\ ~CanRLock(gMtx)
    \/ rPc[r] = "lock" /\ ~CanLock(gMtx)
BcastBlocked == bPc = "rlock" /\ ~CanRLock(gMtx)

\* C37: while the process runs, the signer, the two pruners, the Receive
\* caller and the broadcaster are never all waiting for a lock; and a
\* thread that waits for the write lock of the gossip buffer (the signer at
\* line 83, the gossip pruner at line 149, Receive at its Lock) gets it.
C37_NoDeadlockWritersProgress ==
    /\ [](~crashed =>
            ~(/\ SignerBlocked /\ PrunerBlocked /\ GPrunerBlocked
              /\ RecvBlocked("R1") /\ BcastBlocked))
    /\ (sPc = "lockG" /\ ~CanLock(gMtx)) ~> (gMtx.w = "signer")
    /\ (gpPc = "tick" /\ ~CanLock(gMtx)) ~> (gMtx.w = "gpruner")
    /\ (rPc["R1"] = "lock" /\ ~CanLock(gMtx)) ~> (gMtx.w = "R1")

====
